---- MODULE Spec2Model ----
(***************************************************************************)
(* A model of the robot-pair communication simulator RCS (src/rcs.py).     *)
(*                                                                         *)
(* One RCS object (a "pair") is modelled: its private fields, the          *)
(* constructor, set_model_specifications and can_communicate.  Python      *)
(* strings the code takes apart (model names, robot and stream names) are  *)
(* sequences of one-character strings, so that lower(), startswith(),      *)
(* find() and split() are computed and not assumed.  Python's None is the  *)
(* empty sequence and a held value v is <<v>>.  Informational log lines    *)
(* are not state; error-level log lines are recorded in errors.            *)
(***************************************************************************)
EXTENDS Integers, Sequences, FiniteSets, TLC

VARIABLES
    status,                \* "new" (before __init__), "ready", "exited" (sys.exit)
    robot_names,           \* self.__robot_names
    model,                 \* self.__model
    distance_threshold,    \* self.__distance_threshold
    frequency,             \* self.__frequency
    free_space_threshold,  \* self.__free_space_threshold
    plm,                   \* self.__plm
    call,                  \* the last call made on the pair and its inputs
    ret,                   \* how the last call ended
    errors,                \* error-level log lines of the last call
    frame                  \* the last activation of __simulate_comm_pathlossmap
                           \* that is still alive, with the raster handles open

vars == <<status, robot_names, model, distance_threshold, frequency,
          free_space_threshold, plm, call, ret, errors, frame>>

config == <<model, distance_threshold, frequency, free_space_threshold, plm>>

----------------------------------------------------------------------------
(* Python values *)

None == <<>>
Some(v) == <<v>>
Val(o) == o[1]

Returned(v) == [kind |-> "return", val |-> v]
Raised(e) == [kind |-> "raise", exc |-> e]
Exited(c) == [kind |-> "exit", code |-> c]

(* str.lower(), character by character *)
Uppers == <<"A","B","C","D","E","F","G","H","I","J","K","L","M",
            "N","O","P","Q","R","S","T","U","V","W","X","Y","Z">>
Lowers == <<"a","b","c","d","e","f","g","h","i","j","k","l","m",
            "n","o","p","q","r","s","t","u","v","w","x","y","z">>

LowerChar(c) ==
    IF \E i \in DOMAIN Uppers : Uppers[i] = c
    THEN Lowers[CHOOSE i \in DOMAIN Uppers : Uppers[i] = c]
    ELSE c

Lower(s) == [i \in DOMAIN s |-> LowerChar(s[i])]

(* str.startswith(prefix) *)
StartsWith(w, p) == Len(p) <= Len(w) /\ SubSeq(w, 1, Len(p)) = p

(* str.find(sub) != -1 *)
Contains(w, sub) ==
    \E i \in 1..(Len(w) + 1) :
        i + Len(sub) - 1 <= Len(w) /\ SubSeq(w, i, i + Len(sub) - 1) = sub

----------------------------------------------------------------------------
(* Class attributes of RCS *)

str_distance == <<"d","i","s","t","a","n","c","e">>
str_line_of_sight == <<"l","i","n","e","_","o","f","_","s","i","g","h","t">>
str_free_space_loss == <<"f","r","e","e","_","s","p","a","c","e","_","l","o","s","s">>
str_plm == <<"p","l","m">>

models == {str_distance, str_line_of_sight, str_free_space_loss, str_plm}
default_model == str_distance
default_distance_threshold == 10
default_frequency == 800
default_free_space_threshold == 45
default_plm == [t1 |-> 20, t2 |-> 40, t3 |-> 60,
                dr0 |-> 54, dr1 |-> 42, dr2 |-> 27, dr3 |-> 0]

----------------------------------------------------------------------------
(* Inputs.  A kwargs dictionary is a record of the five keys the code     *)
(* reads; None marks a key that is not in kwargs.                           *)

MaxThreshold == 2
MaxDistance == 3
MaxT == 3
MaxDR == 3

str_Distance == <<"D","i","s","t","a","n","c","e">>
str_PLM == <<"P","L","M">>
str_wifi == <<"w","i","f","i">>

ModelInputs == models \cup {str_Distance, str_PLM, str_wifi}

(* The parameters of src/example_1.py *)
example_plm == [t1 |-> 10, t2 |-> 20, t3 |-> 30,
                dr0 |-> 4, dr1 |-> 3, dr2 |-> 2, dr3 |-> 1]

MkPlm(t, dr) == [t1 |-> t[1], t2 |-> t[2], t3 |-> t[3],
                 dr0 |-> dr[1], dr1 |-> dr[2], dr2 |-> dr[3], dr3 |-> dr[4]]

PlmKeys == {"t1", "t2", "t3", "dr0", "dr1", "dr2", "dr3"}

Without(d, k) == [x \in (DOMAIN d) \ {k} |-> d[x]]
WithKey(d, k, v) == [x \in (DOMAIN d) \cup {k} |-> IF x = k THEN v ELSE d[x]]

TTriples == (0..MaxT) \X (0..MaxT) \X (0..MaxT)
DRQuads == (0..MaxDR) \X (0..MaxDR) \X (0..MaxDR) \X (0..MaxDR)

(* Dictionaries offered as the 'plm' override: every threshold triple with *)
(* ordered data rates, every data-rate quadruple with ordered thresholds,  *)
(* some with both chains broken, and dictionaries with a key missing, a    *)
(* key too many, or one key replaced by another.                           *)
PlmInputs ==
    {MkPlm(t, <<3, 2, 1, 0>>) : t \in TTriples}
    \cup {MkPlm(<<1, 2, 3>>, dr) : dr \in DRQuads}
    \cup {MkPlm(<<2, 1, 3>>, <<1, 1, 0, 0>>), MkPlm(<<0, 0, 0>>, <<0, 1, 2, 3>>)}
    \cup {example_plm}
    \cup {Without(example_plm, k) : k \in PlmKeys}
    \cup {WithKey(example_plm, "t4", 40), WithKey(example_plm, "dr4", 0)}
    \cup {WithKey(Without(example_plm, "t3"), "t4", 30)}

Opt(S) == {None} \cup {Some(v) : v \in S}

(* Overrides of the model and of the three scalar fields *)
KwargsCfg ==
    [model : Opt(ModelInputs),
     distance_threshold : Opt(1..MaxThreshold),
     freq : Opt({750}),
     free_space_threshold : Opt({30}),
     plm : {None}]

(* Overrides of the plm parameters *)
KwargsPlm ==
    [model : {None},
     distance_threshold : {None},
     freq : {None},
     free_space_threshold : {None},
     plm : Opt(PlmInputs)]

(* Overrides that put the pair in the 'plm' model with valid parameters *)
KwargsLoss ==
    [model : {Some(str_plm)},
     distance_threshold : {None},
     freq : {None},
     free_space_threshold : {None},
     plm : Opt({example_plm, MkPlm(<<1, 2, 3>>, <<3, 2, 1, 0>>)})]

----------------------------------------------------------------------------
(* RCS.model_exists *)
model_exists(m) == Lower(m) \in models

(* Variants of __check_plm_dictionary that forget one test *)
check_plm_dictionary_no_rates(d) ==
    /\ Cardinality(DOMAIN d) = Cardinality(DOMAIN default_plm)
    /\ DOMAIN d = DOMAIN default_plm
    /\ d["t3"] > d["t2"] /\ d["t2"] > d["t1"] /\ d["t1"] > 0

check_plm_dictionary_no_positive(d) ==
    /\ Cardinality(DOMAIN d) = Cardinality(DOMAIN default_plm)
    /\ DOMAIN d = DOMAIN default_plm
    /\ d["t3"] > d["t2"] /\ d["t2"] > d["t1"]
    /\ d["dr0"] > d["dr1"] /\ d["dr1"] > d["dr2"] /\ d["dr2"] > d["dr3"]

(* RCS.__check_plm_dictionary *)
check_plm_dictionary(d) ==
    /\ Cardinality(DOMAIN d) = Cardinality(DOMAIN default_plm)
    /\ DOMAIN d = DOMAIN default_plm
    /\ d["t3"] > d["t2"] /\ d["t2"] > d["t1"] /\ d["t1"] > 0
    /\ d["dr0"] > d["dr1"] /\ d["dr1"] > d["dr2"] /\ d["dr2"] > d["dr3"]

(* The value a field takes in set_model_specifications: the override when  *)
(* it is in kwargs (and accepted), else the held value, else the default.  *)
NewModel(kwargs) ==
    IF kwargs.model # None /\ model_exists(Val(kwargs.model))
    THEN kwargs.model
    ELSE IF model = None THEN Some(default_model) ELSE model

NewDistanceThreshold(kwargs) ==
    IF kwargs.distance_threshold # None
    THEN kwargs.distance_threshold
    ELSE IF distance_threshold = None
         THEN Some(default_distance_threshold) ELSE distance_threshold

(* A variant that falls back to the default whenever 'freq' is not given *)
NewFrequency_reset(kwargs) ==
    IF kwargs.freq # None THEN kwargs.freq ELSE Some(default_frequency)

NewFrequency(kwargs) ==
    IF kwargs.freq # None
    THEN kwargs.freq
    ELSE IF frequency = None THEN Some(default_frequency) ELSE frequency

NewFreeSpaceThreshold(kwargs) ==
    IF kwargs.free_space_threshold # None
    THEN kwargs.free_space_threshold
    ELSE IF free_space_threshold = None
         THEN Some(default_free_space_threshold) ELSE free_space_threshold

NewPlm(kwargs) ==
    IF kwargs.plm # None /\ check_plm_dictionary(Val(kwargs.plm))
    THEN kwargs.plm
    ELSE IF plm = None THEN Some(default_plm) ELSE plm

(* RCS.set_model_specifications: the assignments to the five fields *)
Configure(kwargs) ==
    /\ model' = NewModel(kwargs)
    /\ distance_threshold' = NewDistanceThreshold(kwargs)
    /\ frequency' = NewFrequency(kwargs)
    /\ free_space_threshold' = NewFreeSpaceThreshold(kwargs)
    /\ plm' = NewPlm(kwargs)

set_model_specifications(kwargs) ==
    /\ status = "ready"
    /\ Configure(kwargs)
    /\ call' = [op |-> "set_model_specifications", kwargs |-> kwargs]
    /\ ret' = Returned(None)
    /\ errors' = {}
    /\ UNCHANGED <<status, robot_names, frame>>

----------------------------------------------------------------------------
(* The simulated scene the constructor asks the simulator about:           *)
(* list_robots and list_streams.                                           *)

str_r1 == <<"r","1">>
str_r2 == <<"r","2">>
str_r9 == <<"r","9">>
stream_r1_pose == <<"r","1",".","p","o","s","e">>
stream_r2_Pose == <<"r","2",".","P","o","s","e">>
stream_r2_cam == <<"r","2",".","c","a","m">>

RobotArgs == {<<str_r1, str_r2>>, <<str_r1, str_r9>>, <<str_r9, str_r2>>}

Scenes ==
    {[r_names |-> <<str_r1, str_r2>>,
      streams |-> <<stream_r1_pose, stream_r2_cam, stream_r2_Pose>>],
     [r_names |-> <<str_r1, str_r2>>,
      streams |-> <<stream_r1_pose, stream_r2_cam>>],
     [r_names |-> <<str_r1>>,
      streams |-> <<stream_r1_pose>>]}

InList(x, l) == \E i \in DOMAIN l : l[i] = x

(* word.split('.'): the pieces of word between the dots *)
RECURSIVE Split(_)
Split(w) ==
    IF \E i \in DOMAIN w : w[i] = "."
    THEN LET d == CHOOSE i \in DOMAIN w :
                      w[i] = "." /\ \A j \in 1..(i - 1) : w[j] # "."
         IN  <<SubSeq(w, 1, d - 1)>> \o Split(SubSeq(w, d + 1, Len(w)))
    ELSE <<w>>

(* The test of the two loops over the streams *)
IsPoseStreamOf(word, r) == StartsWith(word, r) /\ Contains(Lower(word), <<"p","o","s","e">>)

(* A loop over the streams: the last matching stream sets the pose name;   *)
(* "IndexError" when a matching stream has no dot.                          *)
PoseMatches(streams, r) == {i \in DOMAIN streams : IsPoseStreamOf(streams[i], r)}

PoseLoopRaises(streams, r) ==
    \E i \in PoseMatches(streams, r) : Len(Split(streams[i])) < 2

PoseName(streams, r) ==
    LET last == CHOOSE i \in PoseMatches(streams, r) :
                    \A j \in PoseMatches(streams, r) : j <= i
    IN  Split(streams[last])[2]

(* RCS.__verify_robots_names_and_pose_sensors: how it ends *)
verify_robots_names_and_pose_sensors(r1, r2, scene) ==
    IF ~InList(r1, scene.r_names) \/ ~InList(r2, scene.r_names)
    THEN Exited(0)
    ELSE IF PoseLoopRaises(scene.streams, r1) THEN Raised("IndexError")
    ELSE IF PoseMatches(scene.streams, r1) = {} THEN Exited(0)
    ELSE IF PoseLoopRaises(scene.streams, r2) THEN Raised("IndexError")
    ELSE IF PoseMatches(scene.streams, r2) = {} THEN Exited(0)
    ELSE Returned([r1 |-> r1, r2 |-> r2,
                   r1_pose |-> PoseName(scene.streams, r1),
                   r2_pose |-> PoseName(scene.streams, r2)])

(* The error line logged before each sys.exit(0) of the verification *)
verify_errors(r1, r2, scene) ==
    IF verify_robots_names_and_pose_sensors(r1, r2, scene).kind = "exit"
    THEN {IF ~InList(r1, scene.r_names) \/ ~InList(r2, scene.r_names)
          THEN "robot name does not exist" ELSE "no POSE sensor"}
    ELSE {}

(* RCS.__init__ *)
init(r1, r2, scene, kwargs) ==
    LET v == verify_robots_names_and_pose_sensors(r1, r2, scene) IN
    /\ status = "new"
    /\ call' = [op |-> "__init__", r1 |-> r1, r2 |-> r2, scene |-> scene,
                kwargs |-> kwargs]
    /\ errors' = verify_errors(r1, r2, scene)
    /\ UNCHANGED frame
    /\ IF v.kind = "return"
       THEN /\ robot_names' = Some(v.val)
            /\ Configure(kwargs)
            /\ status' = "ready"
            /\ ret' = Returned(None)
       ELSE /\ status' = IF v.kind = "exit" THEN "exited" ELSE "new"
            /\ ret' = v
            /\ UNCHANGED <<robot_names, config>>

----------------------------------------------------------------------------
(* What the simulator and the raster files answer during one call of       *)
(* can_communicate:                                                         *)
(*   rpc    the 'distance_and_view' service: [ok |-> FALSE] when it raises *)
(*          MorseServerError, else the distance and the line of sight;     *)
(*   order  the order in which the loop visits the keys of filenames;      *)
(*   look   for each key: whether the raster opens, whether it carries the *)
(*          two CUSTOM_*_ORIGIN tags, the pose the robot streams (None     *)
(*          when the stream cannot be read), the georeference and the      *)
(*          raster band (a sequence of rows).                              *)
(* Lengths are whole numbers of raster units.                              *)

RpcFailed == [ok |-> FALSE]
RpcAnswers ==
    {RpcFailed} \cup
    {[ok |-> TRUE, distance |-> d, view |-> v] : d \in 0..MaxDistance, v \in BOOLEAN}

unit_geo == [X_custom_origin |-> 0, Y_custom_origin |-> 0,
             X_utm_origin |-> 0, Y_utm_origin |-> 0,
             X_scale |-> 1, Y_scale |-> -1]

Looks(map, xs) ==
    {[opened |-> FALSE, tags |-> TRUE, pose |-> Some([x |-> 0, y |-> 0]),
      geo |-> unit_geo, map |-> map],
     [opened |-> TRUE, tags |-> FALSE, pose |-> Some([x |-> 0, y |-> 0]),
      geo |-> unit_geo, map |-> map],
     [opened |-> TRUE, tags |-> TRUE, pose |-> None,
      geo |-> unit_geo, map |-> map]}
    \cup {[opened |-> TRUE, tags |-> TRUE, pose |-> Some([x |-> x, y |-> 0]),
           geo |-> unit_geo, map |-> map] : x \in xs}

(* One-row rasters holding the path losses the runs read *)
map_small == << <<-1, 5, 25>> >>
map_bands == << <<-1, 0, 1, 2, 3, 5, 10, 20, 25, 30>> >>

LooksCfg == Looks(map_small, 0..2)
LooksLoss == Looks(map_bands, -1..Len(map_bands[1]))

Orders == {<<"r1", "r2">>, <<"r2", "r1">>}

(* The answers a call consumes: the service for the three models that ask  *)
(* it, the rasters and poses for 'plm', nothing for any other held model.  *)
Envs(rpcs, looks) ==
    IF Val(model) \in {str_distance, str_line_of_sight, str_free_space_loss}
    THEN {[rpc |-> Some(r), order |-> <<>>, look |-> None] : r \in rpcs}
    ELSE IF Val(model) = str_plm
    THEN {[rpc |-> None, order |-> o, look |-> Some([r1 |-> a, r2 |-> b])] :
              o \in Orders, a \in looks, b \in looks}
    ELSE {[rpc |-> None, order |-> <<>>, look |-> None]}

----------------------------------------------------------------------------
(* A variant that answers "far away, not in sight" when the service fails *)
get_distance_and_lineofsight_far(rpc) ==
    IF rpc.ok THEN Some(<<rpc.distance, rpc.view>>) ELSE Some(<<1000000, FALSE>>)

(* RCS.__get_distance_and_lineofsight: the list the service returns, or    *)
(* None when the except clause swallows MorseServerError.                  *)
get_distance_and_lineofsight(rpc) ==
    IF rpc.ok THEN Some(<<rpc.distance, rpc.view>>) ELSE None

(* A variant that compares with <= *)
simulate_comm_distance_le(rpc) ==
    LET result == get_distance_and_lineofsight(rpc) IN
    IF result = None THEN Raised("TypeError")
    ELSE IF Val(result)[1] <= Val(distance_threshold)
         THEN Returned(1) ELSE Returned(0)

(* RCS.__simulate_comm_distance *)
simulate_comm_distance(rpc) ==
    LET result == get_distance_and_lineofsight(rpc) IN
    IF result = None THEN Raised("TypeError")
    ELSE IF Val(result)[1] < Val(distance_threshold)
         THEN Returned(1) ELSE Returned(0)

(* RCS.__simulate_comm_lineofsight *)
simulate_comm_lineofsight(rpc) ==
    LET result == get_distance_and_lineofsight(rpc) IN
    IF result = None THEN Raised("TypeError")
    ELSE IF Val(result)[2] THEN Returned(1) ELSE Returned(0)

(* 1000 * log10(n), rounded, for the distances and frequencies of the runs *)
Log10Milli(n) ==
    CASE n = 1 -> 0      [] n = 2 -> 301    [] n = 3 -> 477
      [] n = 4 -> 602    [] n = 5 -> 699    [] n = 6 -> 778
      [] n = 7 -> 845    [] n = 8 -> 903    [] n = 9 -> 954
      [] n = 750 -> 2875 [] n = 800 -> 2903

(* The free-space loss of RCS.__simulate_comm_freespaceloss in thousandths *)
(* of a dB, with Gt = Gr = 2 and c = 299792458:                            *)
(*   -10 log10(Gt Gr wavelength^2 / (4 pi d)^2)                            *)
(*     = 20 log10(d) + 20 log10(f) + 20 log10(4 pi 10^6 / c) - 10 log10(4) *)
FriisOffsetMilli == -33573
FreeSpaceLossMilli(d, f) == 20 * Log10Milli(d) + 20 * Log10Milli(f) + FriisOffsetMilli

(* RCS.__simulate_comm_freespaceloss *)
simulate_comm_freespaceloss(rpc) ==
    LET result == get_distance_and_lineofsight(rpc) IN
    IF Val(frequency) = 0 THEN Raised("ZeroDivisionError")
    ELSE IF result = None THEN Raised("TypeError")
    ELSE IF Val(result)[1] = 0 THEN Raised("ZeroDivisionError")
    ELSE IF FreeSpaceLossMilli(Val(result)[1], Val(frequency))
                < 1000 * Val(free_space_threshold)
         THEN Returned(1) ELSE Returned(0)

(* A variant whose bands are closed on the right *)
get_Data_Rate_closed(pl, p) ==
    IF pl >= 0 /\ pl <= p["t1"] THEN p["dr0"]
    ELSE IF pl > p["t1"] /\ pl <= p["t2"] THEN p["dr1"]
    ELSE IF pl > p["t2"] /\ pl <= p["t3"] THEN p["dr2"]
    ELSE IF pl > p["t3"] THEN p["dr3"]
    ELSE 0

(* A variant that returns the two upper bands' rates the wrong way round *)
get_Data_Rate_swapped(pl, p) ==
    IF pl >= 0 /\ pl < p["t1"] THEN p["dr0"]
    ELSE IF pl >= p["t1"] /\ pl < p["t2"] THEN p["dr1"]
    ELSE IF pl >= p["t2"] /\ pl < p["t3"] THEN p["dr3"]
    ELSE IF pl >= p["t3"] THEN p["dr2"]
    ELSE 0

(* RCS.__get_Data_Rate with the parameters p held in self.__plm *)
get_Data_Rate(pl, p) ==
    IF pl >= 0 /\ pl < p["t1"] THEN p["dr0"]
    ELSE IF pl >= p["t1"] /\ pl < p["t2"] THEN p["dr1"]
    ELSE IF pl >= p["t2"] /\ pl < p["t3"] THEN p["dr2"]
    ELSE IF pl >= p["t3"] THEN p["dr3"]
    ELSE 0

(* The branch of RCS.__get_Data_Rate that logs an error: no band holds pl  *)
get_Data_Rate_errors(pl, p) ==
    IF \/ (pl >= 0 /\ pl < p["t1"])
       \/ (pl >= p["t1"] /\ pl < p["t2"])
       \/ (pl >= p["t2"] /\ pl < p["t3"])
       \/ pl >= p["t3"]
    THEN {} ELSE {"no data rate condition (< 0)"}

(* int(a / b) of Python: the quotient truncated toward zero *)
Abs(a) == IF a < 0 THEN -a ELSE a

(* A variant that floors the quotient toward minus infinity *)
TruncDiv_floor(a, b) == IF b > 0 THEN a \div b ELSE (-a) \div (-b)

(* int(a / b): the quotient with its fractional part dropped.  For whole   *)
(* a and b of this size the float quotient is off from the exact one by    *)
(* less than its distance to the nearest integer, so int() sees the same   *)
(* integer part.                                                           *)
TruncDiv(a, b) ==
    IF (a < 0) = (b < 0) THEN Abs(a) \div Abs(b) ELSE -(Abs(a) \div Abs(b))

(* RCS.__getPixel_coordinates *)
getPixel_coordinates(gdal, morse_pose) ==
    LET x == morse_pose.x + gdal.X_custom_origin
        y == morse_pose.y + gdal.Y_custom_origin
    IN  [x |-> TruncDiv(x - gdal.X_utm_origin, gdal.X_scale),
         y |-> TruncDiv(y - gdal.Y_utm_origin, gdal.Y_scale)]

(* array[i] of a Python sequence of length n: a negative i counts from the *)
(* end, and an i outside -n .. n-1 is an IndexError.                       *)
IndexOk(i, n) == -n <= i /\ i < n
At(a, i) == IF i < 0 THEN a[Len(a) + i + 1] ELSE a[i + 1]

(* One pass of the loop of RCS.__simulate_comm_pathlossmap: the path loss  *)
(* read for one robot, or how the pass ends the call.                      *)
lookup(l) ==
    IF ~l.opened THEN Exited(1)
    ELSE IF ~l.tags THEN Raised("KeyError")
    ELSE IF l.pose = None THEN Raised("MorseServerError")
    ELSE IF l.geo.X_scale = 0 \/ l.geo.Y_scale = 0 THEN Raised("ZeroDivisionError")
    ELSE LET pixel == getPixel_coordinates(l.geo, Val(l.pose)) IN
         IF ~IndexOk(pixel.y, Len(l.map)) THEN Raised("IndexError")
         ELSE IF ~IndexOk(pixel.x, Len(At(l.map, pixel.y))) THEN Raised("IndexError")
         ELSE Returned(At(At(l.map, pixel.y), pixel.x))

(* A variant that takes the smaller loss *)
Max_min(a, b) == IF a >= b THEN b ELSE a

(* max(pathlosses.values()) *)
Max(a, b) == IF a >= b THEN a ELSE b

(* RCS.__simulate_comm_pathlossmap *)
simulate_comm_pathlossmap(order, look) ==
    LET first == lookup(look[order[1]])
        second == lookup(look[order[2]])
    IN  IF first.kind # "return" THEN first
        ELSE IF second.kind # "return" THEN second
        ELSE Returned(get_Data_Rate(Max(first.val, second.val), Val(plm)))

(* The activation of RCS.__simulate_comm_pathlossmap: where it stands, the *)
(* keys of filenames still to visit (the first is the current one), the    *)
(* local dataset, pathlosses, and the raster handles gdal holds open.      *)
NewFrame(order) ==
    [pc |-> "open", keys |-> order, dataset |-> None,
     pathlosses |-> [r1 |-> None, r2 |-> None], handles |-> {}]

(* Binding dataset to something else drops the last reference to the       *)
(* handle it held, which closes that handle.                               *)
Rebound(f) == IF f.dataset = None THEN f.handles ELSE f.handles \ {Val(f.dataset)}

(* One step of the loop body for the current key: gdal.Open and its test   *)
(* ("open"), the reads up to pathlosses[key] = ... ("read"), and the       *)
(* assignments under '# Closing variables' ("close").  An exception or     *)
(* sys.exit leaves the body at once, with the locals as they are.          *)
StepFrame(f, look) ==
    LET key == Head(f.keys)
        l == look[key]
    IN  IF f.pc = "open"
        THEN IF l.opened
             THEN [f EXCEPT !.pc = "read", !.dataset = Some(key),
                            !.handles = Rebound(f) \cup {key}]
             ELSE [f EXCEPT !.pc = "exited", !.dataset = None,
                            !.handles = Rebound(f)]
        ELSE IF f.pc = "read"
        THEN IF lookup(l).kind = "return"
             THEN [f EXCEPT !.pc = "close", !.pathlosses[key] = Some(lookup(l).val)]
             ELSE [f EXCEPT !.pc = "raised"]
        ELSE [f EXCEPT !.pc = IF Tail(f.keys) = <<>> THEN "return" ELSE "open",
                       !.keys = Tail(f.keys), !.dataset = None,
                       !.handles = Rebound(f)]

FrameEnded(f) == f.pc \in {"return", "raised", "exited"}

(* The loop run until the function returns, raises or exits *)
RECURSIVE RunFrame(_, _)
RunFrame(f, look) ==
    IF FrameEnded(f) THEN f ELSE RunFrame(StepFrame(f, look), look)

(* What is left of an ended activation: nothing after a return; after an   *)
(* exception or sys.exit the traceback keeps the frame and its locals.     *)
FrameLeft(f) == IF f.pc = "return" THEN None ELSE Some(f)

(* RCS.can_communicate: how the call ends *)
can_communicate_result(env) ==
    IF Val(model) = str_distance THEN simulate_comm_distance(Val(env.rpc))
    ELSE IF Val(model) = str_line_of_sight THEN simulate_comm_lineofsight(Val(env.rpc))
    ELSE IF Val(model) = str_free_space_loss THEN simulate_comm_freespaceloss(Val(env.rpc))
    ELSE IF Val(model) = str_plm THEN simulate_comm_pathlossmap(env.order, Val(env.look))
    ELSE Returned(0)

(* The error-level lines the call logs *)
can_communicate_errors(env) ==
    LET r == can_communicate_result(env) IN
    IF Val(model) \in {str_distance, str_line_of_sight, str_free_space_loss}
    THEN IF get_distance_and_lineofsight(Val(env.rpc)) = None
         THEN {"Oups! An error occurred!"} ELSE {}
    ELSE IF Val(model) = str_plm
    THEN IF r.kind = "exit" THEN {"Path Loss Map File could not be opened"}
         ELSE IF r.kind = "return"
              THEN get_Data_Rate_errors(Max(lookup(Val(env.look).r1).val,
                                            lookup(Val(env.look).r2).val), Val(plm))
              ELSE {}
    ELSE {}

can_communicate(env) ==
    /\ status = "ready"
    /\ call' = [op |-> "can_communicate", env |-> env]
    /\ ret' = can_communicate_result(env)
    /\ errors' = can_communicate_errors(env)
    /\ status' = IF can_communicate_result(env).kind = "exit" THEN "exited" ELSE "ready"
    /\ frame' = IF Val(model) = str_plm
                THEN FrameLeft(RunFrame(NewFrame(env.order), Val(env.look)))
                ELSE frame
    /\ UNCHANGED <<robot_names, config>>

----------------------------------------------------------------------------
(* The pair: constructed once, then reconfigured and queried in any order. *)

Init ==
    /\ status = "new"
    /\ robot_names = None
    /\ model = None
    /\ distance_threshold = None
    /\ frequency = None
    /\ free_space_threshold = None
    /\ plm = None
    /\ call = [op |-> "none"]
    /\ ret = Returned(None)
    /\ errors = {}
    /\ frame = None

Construct(kws) ==
    \E r \in RobotArgs, scene \in Scenes, kwargs \in kws :
        init(r[1], r[2], scene, kwargs)

SetModelSpecifications(kws) ==
    \E kwargs \in kws : set_model_specifications(kwargs)

CanCommunicate(rpcs, looks) ==
    /\ status = "ready"
    /\ \E env \in Envs(rpcs, looks) : can_communicate(env)

Next ==
    \/ Construct(KwargsCfg)
    \/ SetModelSpecifications(KwargsCfg)
    \/ CanCommunicate(RpcAnswers, LooksCfg)

Spec == Init /\ [][Next]_vars

(* The same pair, offered every 'plm' override *)
NextPlm ==
    \/ Construct(KwargsPlm)
    \/ SetModelSpecifications(KwargsPlm)
    \/ CanCommunicate({RpcFailed, [ok |-> TRUE, distance |-> 1, view |-> TRUE]}, LooksCfg)

SpecPlm == Init /\ [][NextPlm]_vars

(* The same pair in the 'plm' model, reading every pair of path losses *)
NextLoss ==
    \/ Construct(KwargsLoss)
    \/ SetModelSpecifications(KwargsLoss)
    \/ CanCommunicate({RpcFailed}, LooksLoss)

SpecLoss == Init /\ [][NextLoss]_vars

----------------------------------------------------------------------------
(* The data-rate classifier on its own: a parameter dictionary and two     *)
(* path losses are drawn, and the classifier is applied to each loss.      *)

ClassifyT == (-1..MaxT) \X (-1..MaxT) \X (-1..MaxT)
ClassifyDR == {<<3, 2, 1, 0>>, <<4, 3, 2, 1>>, <<54, 42, 27, 0>>,
               <<0, -1, -2, -3>>, <<1, 2, 3, 4>>}
ClassifyPl == (-2)..(MaxT + 1)

InitClassify ==
    /\ status = "classifier"
    /\ robot_names = None
    /\ model = None
    /\ distance_threshold = None
    /\ frequency = None
    /\ free_space_threshold = None
    /\ plm \in {Some(MkPlm(t, dr)) : t \in ClassifyT, dr \in ClassifyDR}
    /\ call \in {[op |-> "pending", pl |-> <<a, b>>] : a \in ClassifyPl, b \in ClassifyPl}
    /\ ret = Returned(None)
    /\ errors = {}
    /\ frame = None

Classify ==
    /\ status = "classifier"
    /\ call.op = "pending"
    /\ call' = [op |-> "get_Data_Rate", pl |-> call.pl]
    /\ ret' = Returned(<<get_Data_Rate(call.pl[1], Val(plm)),
                         get_Data_Rate(call.pl[2], Val(plm))>>)
    /\ errors' = get_Data_Rate_errors(call.pl[1], Val(plm))
                 \cup get_Data_Rate_errors(call.pl[2], Val(plm))
    /\ UNCHANGED <<status, robot_names, config, frame>>

NextClassify == Classify

SpecClassify == InitClassify /\ [][NextClassify]_vars

----------------------------------------------------------------------------
(* The constructor on its own, against every scene built from three robots *)
(* (one named with a prefix of another) and five streams.                  *)

str_r12 == <<"r","1","2">>
stream_r12_pose == <<"r","1","2",".","p","o","s","e">>
stream_r1_cam == <<"r","1",".","c","a","m">>

(* The sublists of a list, in the list's order *)
RECURSIVE SubLists(_)
SubLists(l) ==
    IF l = <<>> THEN {<<>>}
    ELSE LET rest == SubLists(Tail(l)) IN
         rest \cup {<<Head(l)>> \o t : t \in rest}

SceneRobots == {str_r1, str_r12, str_r2}
SceneArgs == SceneRobots \X SceneRobots

ScenesWide ==
    {[r_names |-> n, streams |-> w] :
        n \in SubLists(<<str_r1, str_r12, str_r2>>),
        w \in SubLists(<<stream_r1_cam, stream_r1_pose, stream_r12_pose,
                         stream_r2_cam, stream_r2_Pose>>)}

KwargsNone ==
    [model : {None}, distance_threshold : {None}, freq : {None},
     free_space_threshold : {None}, plm : {None}]

ConstructIn(args, scenes, kws) ==
    \E r \in args, scene \in scenes, kwargs \in kws :
        init(r[1], r[2], scene, kwargs)

NextScene ==
    \/ ConstructIn(SceneArgs, ScenesWide, KwargsNone)
    \/ SetModelSpecifications(KwargsNone)
    \/ CanCommunicate({RpcFailed}, LooksCfg)

SpecScene == Init /\ [][NextScene]_vars

----------------------------------------------------------------------------
(* The coordinate mapper on its own: a pending call holds a position and a *)
(* georeference, and the step applies RCS.__getPixel_coordinates to them.  *)

MaxCoord == 4

PixelPoses == {[x |-> x, y |-> y] : x \in -MaxCoord..MaxCoord, y \in -MaxCoord..MaxCoord}
PixelOrigins == {-35, 0, 35}
PixelUtmOrigins == {0, 2}
PixelScales == {-10, -3, 0, 1, 3, 10}

PixelGeos ==
    [X_custom_origin : PixelOrigins, Y_custom_origin : {-35, 35},
     X_utm_origin : PixelUtmOrigins, Y_utm_origin : {0},
     X_scale : PixelScales, Y_scale : {-10, 0, 3}]

InitPixel ==
    /\ status = "mapper"
    /\ robot_names = None
    /\ model = None
    /\ distance_threshold = None
    /\ frequency = None
    /\ free_space_threshold = None
    /\ plm = None
    /\ call \in {[op |-> "pending", gdal |-> g, morse_pose |-> m] :
                    g \in PixelGeos, m \in PixelPoses}
    /\ ret = Returned(None)
    /\ errors = {}
    /\ frame = None

GetPixel ==
    /\ status = "mapper"
    /\ call.op = "pending"
    /\ call' = [op |-> "getPixel_coordinates", gdal |-> call.gdal,
                morse_pose |-> call.morse_pose]
    /\ ret' = IF call.gdal.X_scale = 0 \/ call.gdal.Y_scale = 0
              THEN Raised("ZeroDivisionError")
              ELSE Returned(getPixel_coordinates(call.gdal, call.morse_pose))
    /\ UNCHANGED <<status, robot_names, config, errors, frame>>

NextPixel == GetPixel

SpecPixel == InitPixel /\ [][NextPixel]_vars

----------------------------------------------------------------------------
(* The plm lookup step by step: a call of can_communicate on a 'plm' pair  *)
(* enters __simulate_comm_pathlossmap, the loop body advances one step at  *)
(* a time, and the call ends when the function returns, raises or exits.   *)

CallRaster(looks) ==
    /\ status = "ready"
    /\ Val(model) = str_plm
    /\ IF frame = None THEN TRUE ELSE FrameEnded(Val(frame))
    /\ \E env \in Envs({}, looks) :
          /\ call' = [op |-> "simulate_comm_pathlossmap", env |-> env]
          /\ frame' = Some(NewFrame(env.order))
    /\ UNCHANGED <<status, robot_names, config, ret, errors>>

StepRaster ==
    /\ call.op = "simulate_comm_pathlossmap"
    /\ frame # None
    /\ ~FrameEnded(Val(frame))
    /\ LET look == Val(call.env.look)
           f == StepFrame(Val(frame), look)
       IN  /\ frame' = Some(f)
           /\ IF f.pc = "exited"
              THEN /\ call' = [op |-> "can_communicate", env |-> call.env]
                   /\ ret' = Exited(1)
                   /\ errors' = {"Path Loss Map File could not be opened"}
                   /\ status' = "exited"
              ELSE IF f.pc = "raised"
              THEN /\ call' = [op |-> "can_communicate", env |-> call.env]
                   /\ ret' = lookup(look[Head(f.keys)])
                   /\ errors' = {}
                   /\ UNCHANGED status
              ELSE UNCHANGED <<call, ret, errors, status>>
    /\ UNCHANGED <<robot_names, config>>

ReturnRaster ==
    /\ call.op = "simulate_comm_pathlossmap"
    /\ frame # None
    /\ Val(frame).pc = "return"
    /\ LET pl == Max(Val(Val(frame).pathlosses.r1), Val(Val(frame).pathlosses.r2))
       IN  /\ ret' = Returned(get_Data_Rate(pl, Val(plm)))
           /\ errors' = get_Data_Rate_errors(pl, Val(plm))
    /\ call' = [op |-> "can_communicate", env |-> call.env]
    /\ frame' = None
    /\ UNCHANGED <<status, robot_names, config>>

NextRaster ==
    \/ Construct(KwargsLoss)
    \/ CallRaster(LooksCfg)
    \/ StepRaster
    \/ ReturnRaster

SpecRaster == Init /\ [][NextRaster]_vars

----------------------------------------------------------------------------
(* Properties *)

(* The last step was a set_model_specifications that ran to its end, from  *)
(* the constructor or from the caller.                                     *)
Configured ==
    /\ status = "ready"
    /\ call.op \in {"__init__", "set_model_specifications"}

(* The model a name spells, whatever its letter case *)
Named(m) == Lower(m)

(* C1: a set_model_specifications (or construction) given a 'model'        *)
(* override that names one of the four models in any letter case adopts    *)
(* that model; in every other case the pair keeps the model it held, or    *)
(* holds 'distance' if it held none.                                       *)
C1_ModelAdoptedOrKept ==
    [][Configured' =>
         IF call'.kwargs.model # None
            /\ Named(Val(call'.kwargs.model)) \in
                   {str_distance, str_line_of_sight, str_free_space_loss, str_plm}
         THEN model' = Some(Named(Val(call'.kwargs.model)))
         ELSE model' = IF model = None THEN Some(str_distance) ELSE model]_vars

(* C2: whatever 'model' overrides were given, can_communicate never runs   *)
(* with a held model outside the four it dispatches on.                    *)
C2_DispatchAlwaysRecognized ==
    call.op = "can_communicate" =>
        Val(model) \in {str_distance, str_line_of_sight, str_free_space_loss, str_plm}

(* What the claims call a rejected dictionary: its key set is not the     *)
(* seven names, or a chain of its values is out of order.                  *)
ClaimRejects(d) ==
    \/ DOMAIN d # {"t1", "t2", "t3", "dr0", "dr1", "dr2", "dr3"}
    \/ ~(d["t1"] < d["t2"] /\ d["t2"] < d["t3"])
    \/ ~(d["dr0"] > d["dr1"] /\ d["dr1"] > d["dr2"] /\ d["dr2"] > d["dr3"])

(* C3: a 'plm' override with a wrong key set or with a chain out of order  *)
(* is rejected: the pair then holds the parameters it held before the call *)
(* (the default if it held none) and the call returns normally.            *)
C3_RejectedPlmKeepsHeld ==
    [][(/\ Configured'
        /\ call'.kwargs.plm # None
        /\ ClaimRejects(Val(call'.kwargs.plm)))
       => /\ plm' = IF plm = None
                    THEN Some([t1 |-> 20, t2 |-> 40, t3 |-> 60,
                               dr0 |-> 54, dr1 |-> 42, dr2 |-> 27, dr3 |-> 0])
                    ELSE plm
          /\ ret' = Returned(None)]_vars

(* A rejected override (a key too many) arrives while the pair holds       *)
(* parameters it accepted earlier, and those are still held.               *)
C3_Witness ==
    /\ Configured
    /\ call.op = "set_model_specifications"
    /\ call.kwargs.plm = Some(WithKey(example_plm, "t4", 40))
    /\ plm = Some(example_plm)

(* C4: the parameters a constructed pair holds always satisfy              *)
(* 0 < t1 < t2 < t3 and dr0 > dr1 > dr2 > dr3.                             *)
C4_HeldPlmOrdered ==
    status # "new" /\ plm # None =>
        LET p == Val(plm) IN
        /\ 0 < p["t1"] /\ p["t1"] < p["t2"] /\ p["t2"] < p["t3"]
        /\ p["dr0"] > p["dr1"] /\ p["dr1"] > p["dr2"] /\ p["dr2"] > p["dr3"]

(* The pair holds accepted parameters other than the default after an      *)
(* override with t1 = 0 was offered.                                        *)
C4_Witness ==
    /\ Configured
    /\ call.kwargs.plm = Some(MkPlm(<<0, 2, 3>>, <<3, 2, 1, 0>>))
    /\ plm = Some(MkPlm(<<1, 2, 3>>, <<3, 2, 1, 0>>))

(* C5: each of distance_threshold, freq and free_space_threshold is stored *)
(* as supplied, and when not supplied keeps its value, or takes 10, 800,   *)
(* 45 if it was never set.                                                 *)
C5_ScalarFieldsFrame ==
    [][Configured' =>
         /\ distance_threshold' =
                IF call'.kwargs.distance_threshold # None
                THEN call'.kwargs.distance_threshold
                ELSE IF distance_threshold = None THEN Some(10) ELSE distance_threshold
         /\ frequency' =
                IF call'.kwargs.freq # None
                THEN call'.kwargs.freq
                ELSE IF frequency = None THEN Some(800) ELSE frequency
         /\ free_space_threshold' =
                IF call'.kwargs.free_space_threshold # None
                THEN call'.kwargs.free_space_threshold
                ELSE IF free_space_threshold = None THEN Some(45)
                     ELSE free_space_threshold]_vars

(* A call that supplies only distance_threshold while the other two fields *)
(* hold values set by an earlier call.                                     *)
C5_Witness ==
    /\ call.op = "set_model_specifications"
    /\ call.kwargs.distance_threshold = Some(2)
    /\ call.kwargs.freq = None
    /\ call.kwargs.free_space_threshold = None
    /\ distance_threshold = Some(2)
    /\ frequency = Some(750)
    /\ free_space_threshold = Some(30)

(* C6: with the 'distance' model and a positive threshold, can_communicate *)
(* returns 1 when the reported distance is below the threshold and 0 when  *)
(* it is equal or above.                                                   *)
C6_DistanceStrict ==
    (/\ call.op = "can_communicate"
     /\ Val(model) = str_distance
     /\ Val(call.env.rpc).ok
     /\ Val(distance_threshold) > 0)
    => ret = Returned(IF Val(call.env.rpc).distance < Val(distance_threshold)
                      THEN 1 ELSE 0)

(* The distance equals the threshold and the answer is 0. *)
C6_Witness ==
    /\ call.op = "can_communicate"
    /\ Val(model) = str_distance
    /\ Val(call.env.rpc).ok
    /\ Val(call.env.rpc).distance = 2
    /\ distance_threshold = Some(2)
    /\ ret = Returned(0)

(* The parameters of a classifier run satisfy the orders the claims ask *)
ThresholdsOrdered(p) == p["t1"] < p["t2"] /\ p["t2"] < p["t3"]
RatesOrdered(p) == p["dr0"] > p["dr1"] /\ p["dr1"] > p["dr2"] /\ p["dr2"] > p["dr3"]

(* C7: with t1 < t2 < t3 the classifier returns dr0 for 0 <= pl < t1, dr1   *)
(* for t1 <= pl < t2, dr2 for t2 <= pl < t3 and dr3 for pl >= t3: a loss   *)
(* equal to a threshold falls in the higher-loss band.                     *)
C7_BandsRightOpen ==
    (call.op = "get_Data_Rate" /\ ThresholdsOrdered(Val(plm))) =>
        LET p == Val(plm)
            pl == call.pl[1]
            r == ret.val[1]
        IN  /\ (0 <= pl /\ pl < p["t1"]) => r = p["dr0"]
            /\ (p["t1"] <= pl /\ pl < p["t2"]) => r = p["dr1"]
            /\ (p["t2"] <= pl /\ pl < p["t3"]) => r = p["dr2"]
            /\ pl >= p["t3"] => r = p["dr3"]

(* A loss equal to t2 is classified dr2, which differs from dr1. *)
C7_Witness ==
    /\ call.op = "get_Data_Rate"
    /\ plm = Some(MkPlm(<<1, 2, 3>>, <<4, 3, 2, 1>>))
    /\ call.pl[1] = 2
    /\ ret.val[1] = 2

(* C8 as first stated: for parameters a pair can hold (thresholds positive *)
(* and ordered, rates ordered) the classifier returns a value for every    *)
(* pl, a negative pl logs an error and gives 0, and the data rate never    *)
(* increases with pl: pl1 <= pl2 gives classify(pl1) >= classify(pl2).     *)
C8_MonotoneEverywhere ==
    (/\ call.op = "get_Data_Rate"
     /\ 0 < Val(plm)["t1"]
     /\ ThresholdsOrdered(Val(plm))
     /\ RatesOrdered(Val(plm)))
    => /\ ret.kind = "return"
       /\ call.pl[1] < 0 => (ret.val[1] = 0 /\ errors # {})
       /\ call.pl[1] <= call.pl[2] => ret.val[1] >= ret.val[2]

(* C8: for parameters with 0 < t1 < t2 < t3 and dr0 > dr1 > dr2 > dr3 the  *)
(* classifier returns a value for every pl (one of the four rates, or 0    *)
(* with an error logged when pl is negative), and the data rate never      *)
(* increases with pl over the non-negative losses: 0 <= pl1 <= pl2 gives   *)
(* classify(pl1) >= classify(pl2).                                         *)
C8_MonotoneNonNegative ==
    (/\ call.op = "get_Data_Rate"
     /\ 0 < Val(plm)["t1"]
     /\ ThresholdsOrdered(Val(plm))
     /\ RatesOrdered(Val(plm)))
    => LET p == Val(plm) IN
       /\ ret.kind = "return"
       /\ ret.val[1] \in {p["dr0"], p["dr1"], p["dr2"], p["dr3"], 0}
       /\ call.pl[1] < 0 => (ret.val[1] = 0 /\ errors # {})
       /\ (0 <= call.pl[1] /\ call.pl[1] <= call.pl[2]) => ret.val[1] >= ret.val[2]

(* Two losses in different bands, the larger with the lower rate. *)
C8_Witness ==
    /\ call.op = "get_Data_Rate"
    /\ plm = Some(MkPlm(<<1, 2, 3>>, <<3, 2, 1, 0>>))
    /\ call.pl = <<2, 3>>
    /\ ret.val = <<1, 0>>

(* The bands as the claims state them, for parameters with 0 < t1 < t2 < t3 *)
ClaimBand(pl, p) ==
    IF pl < 0 THEN 0
    ELSE IF pl < p["t1"] THEN p["dr0"]
    ELSE IF pl < p["t2"] THEN p["dr1"]
    ELSE IF pl < p["t3"] THEN p["dr2"]
    ELSE p["dr3"]

(* The outcome of the raster lookup of robot k in the last call *)
LossOf(k) == lookup(Val(call.env.look)[k])

(* C9: with the 'plm' model, can_communicate returns the data rate of the  *)
(* larger of the two robots' path losses under the held parameters; with   *)
(* {t1:10,t2:20,t3:30,dr0:4,dr1:3,dr2:2,dr3:1} a larger loss of 25 gives   *)
(* 2, of 5 gives 4, of -1 gives 0.                                         *)
C9_PlmRateOfLargerLoss ==
    (/\ call.op = "can_communicate"
     /\ Val(model) = str_plm
     /\ LossOf("r1").kind = "return"
     /\ LossOf("r2").kind = "return")
    => LET l1 == LossOf("r1").val
           l2 == LossOf("r2").val
           larger == IF l1 > l2 THEN l1 ELSE l2
           example == [t1 |-> 10, t2 |-> 20, t3 |-> 30,
                       dr0 |-> 4, dr1 |-> 3, dr2 |-> 2, dr3 |-> 1]
       IN  /\ ret = Returned(ClaimBand(larger, Val(plm)))
           /\ (Val(plm) = example /\ larger = 25) => ret.val = 2
           /\ (Val(plm) = example /\ larger = 5) => ret.val = 4
           /\ (Val(plm) = example /\ larger = -1) => ret.val = 0

(* The example parameters, losses 5 and 25: the rate is that of 25. *)
C9_Witness ==
    /\ call.op = "can_communicate"
    /\ Val(model) = str_plm
    /\ plm = Some(example_plm)
    /\ LossOf("r1").kind = "return" /\ LossOf("r1").val = 5
    /\ LossOf("r2").kind = "return" /\ LossOf("r2").val = 25
    /\ ret = Returned(2)

OwnPoseStream(word, r) ==
    /\ Len(Split(word)) >= 2
    /\ Split(word)[1] = r
    /\ Contains(Lower(word), <<"p","o","s","e">>)

HasOwnPoseStream(r, scene) ==
    \E i \in DOMAIN scene.streams : OwnPoseStream(scene.streams[i], r)

(* C11: constructing a pair completes when both robots are in the robot    *)
(* list and each has a pose-sensor stream of its own; in every other case  *)
(* the process exits and no configuration is established.                  *)
C11_ConstructionNeedsOwnPoseStreams ==
    call.op = "__init__" =>
        IF /\ InList(call.r1, call.scene.r_names)
           /\ InList(call.r2, call.scene.r_names)
           /\ HasOwnPoseStream(call.r1, call.scene)
           /\ HasOwnPoseStream(call.r2, call.scene)
        THEN status = "ready"
        ELSE /\ status = "exited"
             /\ config = <<None, None, None, None, None>>

(* The quotient n / s dropped to the integer q next to it on the side of   *)
(* zero: what is left over, n - q * s, is smaller than s in size and is    *)
(* zero or has the sign of n.                                              *)
TruncatedQuotient(q, n, s) ==
    LET r == n - q * s IN
    /\ Abs(r) < Abs(s)
    /\ r = 0 \/ ((r < 0) = (n < 0))

(* C12: the column is ((pos.x + origin_x) - utm_origin_x) / scale_x and    *)
(* the row is ((pos.y + origin_y) - utm_origin_y) / scale_y, each cut to   *)
(* an integer toward zero, whatever else the state holds.                  *)
C12_PixelTruncatesTowardZero ==
    (call.op = "getPixel_coordinates" /\ ret.kind = "return") =>
        /\ TruncatedQuotient(ret.val.x,
               (call.morse_pose.x + call.gdal.X_custom_origin) - call.gdal.X_utm_origin,
               call.gdal.X_scale)
        /\ TruncatedQuotient(ret.val.y,
               (call.morse_pose.y + call.gdal.Y_custom_origin) - call.gdal.Y_utm_origin,
               call.gdal.Y_scale)

(* A quotient of -3.9 mapped to column -3 and one of 3.9 mapped to row 3   *)
C12_Witness ==
    /\ call.op = "getPixel_coordinates"
    /\ ret.kind = "return"
    /\ (call.morse_pose.x + call.gdal.X_custom_origin) - call.gdal.X_utm_origin = -39
    /\ call.gdal.X_scale = 10
    /\ ret.val.x = -3
    /\ (call.morse_pose.y + call.gdal.Y_custom_origin) - call.gdal.Y_utm_origin = -39
    /\ call.gdal.Y_scale = -10
    /\ ret.val.y = 3

(* The pixel the lookup of robot k computes lies inside its raster *)
PixelInside(k) ==
    LET l == Val(call.env.look)[k]
        pixel == getPixel_coordinates(l.geo, Val(l.pose))
    IN  /\ 0 <= pixel.y /\ pixel.y < Len(l.map)
        /\ 0 <= pixel.x /\ pixel.x < Len(l.map[1])

(* C13: in the plm lookup a data rate is returned only when both robots'   *)
(* pixel indices are inside their rasters; an index with row < 0, row >=   *)
(* rows, col < 0 or col >= columns ends the call without a data rate.      *)
C13_OutsideRasterIsFatal ==
    (/\ call.op = "can_communicate"
     /\ Val(model) = str_plm
     /\ ret.kind = "return")
    => PixelInside("r1") /\ PixelInside("r2")

(* The raster handles open now *)
OpenHandles == IF frame = None THEN {} ELSE Val(frame).handles

(* C14: in the plm lookup at most one raster handle is open at any point,  *)
(* none is open when the next raster is about to be opened, and none is    *)
(* open once can_communicate has ended, however it ended.                  *)
C14_HandlesReleasedOnEveryPath ==
    /\ Cardinality(OpenHandles) <= 1
    /\ (frame # None /\ Val(frame).pc = "open") => OpenHandles = {}
    /\ call.op = "can_communicate" => OpenHandles = {}

====
